---- MODULE Spec2Model ----
(***************************************************************************)
(* Compatibility checks between the open (OSS) and the hosted (Cloud)      *)
(* OpenAPI documents, as implemented by the pytest module                  *)
(* test_oss_cloud_api_compatibility.py.                                    *)
(*                                                                         *)
(* Representation of the Python/JSON values:                               *)
(*   - a str that the code searches, replaces in or prefixes (route paths, *)
(*     version strings) is the sequence of its characters;                 *)
(*   - every other str (method, tag, type tag, field name) is a string;    *)
(*   - a dict is a function; a dict whose iteration order the code relies  *)
(*     on (a type's "properties") is the sequence of its items, each item  *)
(*     a record [k |-> key, v |-> value], keys pairwise distinct;          *)
(*   - a list is a sequence; a "$ref" string is the sequence of its        *)
(*     "/"-separated segments;                                             *)
(*   - the result of d.get(key) is <<>> for None and <<value>> otherwise.  *)
(***************************************************************************)
EXTENDS Integers, Sequences, FiniteSets, TLC

VARIABLES
    oss_file,      \* parsed content of oss_schema.json
    cloud_file,    \* parsed content of cloud_schema.json
    PREFECT_V2,    \* the module-level flag
    cloud_schema,  \* <<>> or <<d>>: d is the object the cloud_schema fixture
                   \* handed to the latest test that requested it
    last,          \* outcome of the latest test invocation
    runs           \* number of test invocations so far

vars == <<oss_file, cloud_file, PREFECT_V2, cloud_schema, last, runs>>

\* Bound on the number of test invocations in one session.
MaxRuns == 2

(***************************************************************************)
(* String literals of the source and of the documents.                     *)
(***************************************************************************)
\* api
S_api ==
    <<"a","p","i">>

\* api/accounts/{account_id}/workspaces/{workspace_id}
S_scoped ==
    <<"a","p","i","/","a","c","c","o","u","n","t","s","/","{","a","c","c","o","u","n",
      "t","_","i","d","}","/","w","o","r","k","s","p","a","c","e","s","/","{","w","o",
      "r","k","s","p","a","c","e","_","i","d","}">>

\* /api/collections/views/{view}
S_collections_view ==
    <<"/","a","p","i","/","c","o","l","l","e","c","t","i","o","n","s","/","v","i","e",
      "w","s","/","{","v","i","e","w","}">>

\* /api/csrf-token
S_csrf_token ==
    <<"/","a","p","i","/","c","s","r","f","-","t","o","k","e","n">>

\* experimental
S_experimental ==
    <<"e","x","p","e","r","i","m","e","n","t","a","l">>

\* /api/ui
S_api_ui ==
    <<"/","a","p","i","/","u","i">>

\* /api/deployments/
S_deployments ==
    <<"/","a","p","i","/","d","e","p","l","o","y","m","e","n","t","s","/">>

\* /api/deployments/{id}
S_deployments_id ==
    <<"/","a","p","i","/","d","e","p","l","o","y","m","e","n","t","s","/","{","i","d",
      "}">>

\* collections
S_collections ==
    <<"c","o","l","l","e","c","t","i","o","n","s">>

\* events
S_events ==
    <<"e","v","e","n","t","s">>

\* automations
S_automations ==
    <<"a","u","t","o","m","a","t","i","o","n","s">>

\* templates
S_templates ==
    <<"t","e","m","p","l","a","t","e","s">>

\* logs/download
S_logs_download ==
    <<"l","o","g","s","/","d","o","w","n","l","o","a","d">>

\* /api/flows/
S_flows ==
    <<"/","a","p","i","/","f","l","o","w","s","/">>

\* /api/rapid/
S_rapid ==
    <<"/","a","p","i","/","r","a","p","i","d","/">>

\* /api/ui/flows
S_ui_flows ==
    <<"/","a","p","i","/","u","i","/","f","l","o","w","s">>

\* /api/experimental/x
S_exp_route ==
    <<"/","a","p","i","/","e","x","p","e","r","i","m","e","n","t","a","l","/","x">>

\* /api/events/filter
S_events_filter ==
    <<"/","a","p","i","/","e","v","e","n","t","s","/","f","i","l","t","e","r">>

\* 2.19
S_v2 ==
    <<"2",".","1","9">>

\* 3.0
S_v3 ==
    <<"3",".","0">>

\* 0.2
S_v02 ==
    <<"0",".","2">>

\* /api/accounts/{account_id}/workspaces/{workspace_id}/flows/
S_flows_scoped ==
    <<"/","a","p","i","/","a","c","c","o","u","n","t","s","/","{","a","c","c","o","u",
      "n","t","_","i","d","}","/","w","o","r","k","s","p","a","c","e","s","/","{","w",
      "o","r","k","s","p","a","c","e","_","i","d","}","/","f","l","o","w","s","/">>

\* /api/accounts/{account_id}/workspaces/{workspace_id}/rapid/
S_rapid_scoped ==
    <<"/","a","p","i","/","a","c","c","o","u","n","t","s","/","{","a","c","c","o","u",
      "n","t","_","i","d","}","/","w","o","r","k","s","p","a","c","e","s","/","{","w",
      "o","r","k","s","p","a","c","e","_","i","d","}","/","r","a","p","i","d","/">>

\* /api/accounts/{account_id}/workspaces/{workspace_id}/rapi/accounts/{account_id}/workspaces/{workspace_id}d/
S_rapid_twice ==
    <<"/","a","p","i","/","a","c","c","o","u","n","t","s","/","{","a","c","c","o","u",
      "n","t","_","i","d","}","/","w","o","r","k","s","p","a","c","e","s","/","{","w",
      "o","r","k","s","p","a","c","e","_","i","d","}","/","r","a","p","i","/","a","c",
      "c","o","u","n","t","s","/","{","a","c","c","o","u","n","t","_","i","d","}","/",
      "w","o","r","k","s","p","a","c","e","s","/","{","w","o","r","k","s","p","a","c",
      "e","_","i","d","}","d","/">>

\* /api/accounts/{account_id}/workspaces/{workspace_id}/collections/views/{view}
S_collections_scoped ==
    <<"/","a","p","i","/","a","c","c","o","u","n","t","s","/","{","a","c","c","o","u",
      "n","t","_","i","d","}","/","w","o","r","k","s","p","a","c","e","s","/","{","w",
      "o","r","k","s","p","a","c","e","_","i","d","}","/","c","o","l","l","e","c","t",
      "i","o","n","s","/","v","i","e","w","s","/","{","v","i","e","w","}">>

\* /api/accounts/{account_id}/workspaces/{workspace_id}/events/filter
S_events_scoped ==
    <<"/","a","p","i","/","a","c","c","o","u","n","t","s","/","{","a","c","c","o","u",
      "n","t","_","i","d","}","/","w","o","r","k","s","p","a","c","e","s","/","{","w",
      "o","r","k","s","p","a","c","e","_","i","d","}","/","e","v","e","n","t","s","/",
      "f","i","l","t","e","r">>

\* /api/accounts/{account_id}/workspaces/{workspace_id}/deployments/
S_deployments_scoped ==
    <<"/","a","p","i","/","a","c","c","o","u","n","t","s","/","{","a","c","c","o","u",
      "n","t","_","i","d","}","/","w","o","r","k","s","p","a","c","e","s","/","{","w",
      "o","r","k","s","p","a","c","e","_","i","d","}","/","d","e","p","l","o","y","m",
      "e","n","t","s","/">>

(***************************************************************************)
(* Python built-ins used by the code.                                      *)
(***************************************************************************)
Range(s) == {s[i] : i \in DOMAIN s}

\* d.get(key, default)
get(d, key, default) == IF key \in DOMAIN d THEN d[key] ELSE default

\* d.get(key): <<>> stands for None
getopt(d, key) == IF key \in DOMAIN d THEN <<d[key]>> ELSE <<>>

\* str.startswith
startswith(s, prefix) ==
    /\ Len(prefix) <= Len(s)
    /\ SubSeq(s, 1, Len(prefix)) = prefix

\* the str operator `sub in s`
contains(s, sub) ==
    \E i \in 1..(Len(s) - Len(sub) + 1) : SubSeq(s, i, i + Len(sub) - 1) = sub

\* str.replace(old, new): every non-overlapping occurrence, left to right
RECURSIVE replace(_, _, _)
replace(s, old, new) ==
    IF Len(s) < Len(old) THEN s
    ELSE IF SubSeq(s, 1, Len(old)) = old
         THEN new \o replace(SubSeq(s, Len(old) + 1, Len(s)), old, new)
         ELSE <<Head(s)>> \o replace(Tail(s), old, new)

\* str.upper on the HTTP methods of the documents
upper(method) ==
    CASE method = "get" -> "GET"
      [] method = "post" -> "POST"
      [] OTHER -> method

\* keys and lookup of an ordered dict (sequence of items)
keys(items) == {items[i].k : i \in DOMAIN items}

item(items, key) == items[CHOOSE i \in DOMAIN items : items[i].k = key].v

(***************************************************************************)
(* Module-level tables.                                                    *)
(***************************************************************************)
\* re.match of the endpoint against the three ignore patterns
\* ^/api/csrf-token$    .*experimental.*    ^/api/ui.*
OSS_PATH_IGNORE_REGEXES(endpoint) ==
    \/ endpoint = S_csrf_token
    \/ contains(endpoint, S_experimental)
    \/ startswith(endpoint, S_api_ui)

\* FORWARD_COMPATIBLE_OSS_REQUEST_PROPS.get(endpoint, [])
FORWARD_COMPATIBLE_OSS_REQUEST_PROPS(endpoint) ==
    IF endpoint \in {S_deployments, S_deployments_id}
    THEN {"job_variables"}
    ELSE {}

\* FORWARD_COMPATIBLE_OSS_API_TYPE_PROPS.get(name, [])
FORWARD_COMPATIBLE_OSS_API_TYPE_PROPS(name) ==
    IF name \in {"DeploymentCreate", "DeploymentUpdate", "DeploymentResponse"}
    THEN {"job_variables"}
    ELSE {}

\* KNOWN_INCOMPATIBLE_API_REQUEST_PROPS.get(endpoint, {}).get(method, {})
\*                                     .get(field, set())
KNOWN_INCOMPATIBLE_API_REQUEST_PROPS(endpoint, method, field) ==
    IF endpoint = S_deployments /\ method = "post"
       /\ field = "enforce_parameter_schema"
    THEN {"default"}
    ELSE {}

\* the tags of operations that exist on the open side only
OpenOnlyTags == {"Admin", "Flow Run Notification Policies", "Root"}

ENDPOINT_GROUPS_WITHOUT_API_VERSION ==
    {S_collections, S_events, S_automations, S_templates, S_logs_download}

(***************************************************************************)
(* Loading and indexing the documents.                                     *)
(***************************************************************************)
\* the (method, endpoint) pairs of OSS_PATHS; the third component of the
\* source's triples is oss_file["paths"][endpoint]
generate_oss_paths_by_method ==
    UNION {{<<method, endpoint>> : method \in DOMAIN oss_file.paths[endpoint]} :
              endpoint \in {e \in DOMAIN oss_file.paths :
                               ~OSS_PATH_IGNORE_REGEXES(e)}}

\* the names of OSS_TYPES; the type of a name is
\* oss_file["components"]["schemas"][name]
generate_oss_types == DOMAIN oss_file.components.schemas

\* the test of the oss_schema fixture
version_is_2(schema) == startswith(schema.info.version, <<"2">>)

convert_oss_endpoint_to_cloud(endpoint) ==
    IF endpoint = S_collections_view
    THEN endpoint
    ELSE replace(endpoint, S_api, S_scoped)

(***************************************************************************)
(* Outcomes of a test invocation.  diag is a sequence of strings: the      *)
(* assertion message of the route test, else the facet (and field) of the  *)
(* assertion that failed or the exception that was raised.                 *)
(***************************************************************************)
passed == [status |-> "passed", diag |-> <<>>]

failed(diag) == [status |-> "failed", diag |-> diag]

error(diag) == [status |-> "error", diag |-> diag]

(***************************************************************************)
(* test_oss_api_types_are_cloud_compatible                                 *)
(***************************************************************************)
\* mutant of preprocess_field: the field is wrapped but not appended to
\* the required list
preprocess_field_keeps_required(schema, i) ==
    LET field_name == schema.properties[i].k
        props == schema.properties[i].v
        required_fields == get(schema, "required", <<>>)
    IN  IF field_name \notin Range(required_fields)
        THEN [schema EXCEPT !["properties"][i].v =
                 IF "anyOf" \in DOMAIN props
                 THEN [props EXCEPT !["anyOf"] = Append(@, [type |-> "null"])]
                 ELSE [anyOf |-> <<[type |-> "null"], props>>]]
        ELSE schema

\* one iteration of the loop of preprocess_pydantic_v1_type, on the i-th
\* item of schema["properties"]; the assignments are made in place
preprocess_field(schema, i) ==
    LET field_name == schema.properties[i].k
        props == schema.properties[i].v
        required_fields == get(schema, "required", <<>>)
    IN  IF field_name \notin Range(required_fields)
        THEN LET wrapped ==
                     IF "anyOf" \in DOMAIN props
                     THEN [props EXCEPT
                              !["anyOf"] = Append(@, [type |-> "null"])]
                     ELSE [anyOf |-> <<[type |-> "null"], props>>]
                 s1 == [schema EXCEPT !["properties"][i].v = wrapped]
             IN  \* required_fields is schema["required"] itself when the
                 \* key exists, and a list nobody keeps otherwise
                 IF "required" \in DOMAIN schema
                 THEN [s1 EXCEPT !["required"] = Append(@, field_name)]
                 ELSE s1
        ELSE schema

RECURSIVE preprocess_from(_, _)
preprocess_from(schema, i) ==
    IF i > Len(schema.properties)
    THEN schema
    ELSE preprocess_from(preprocess_field(schema, i), i + 1)

preprocess_pydantic_v1_type(schema) ==
    IF "properties" \in DOMAIN schema
    THEN preprocess_from(schema, 1)
    ELSE schema

\* the type tags of a property: `type` when set, else the tags of `anyOf`
type_options(props) ==
    IF "type" \in DOMAIN props
    THEN {props.type}
    ELSE IF "anyOf" \in DOMAIN props
         THEN {props.anyOf[i].type :
                  i \in {j \in DOMAIN props.anyOf :
                            "type" \in DOMAIN props.anyOf[j]}}
         ELSE {}

\* mutant of check_type_field: null is not discarded from the open side's
\* options
check_type_field_keeps_null(name, field_name, props, cloud_props, flag) ==
    IF flag /\ name = "StateCreate" /\ field_name \in {"timestamp", "id"}
    THEN [status |-> "passed", diag |-> <<>>]
    ELSE IF field_name \notin keys(cloud_props)
    THEN [status |-> "failed", diag |-> <<"properties", field_name, "missing">>]
    ELSE IF type_options(props)
               \subseteq type_options(item(cloud_props, field_name))
    THEN [status |-> "passed", diag |-> <<>>]
    ELSE [status |-> "failed", diag |-> <<"properties", field_name, "types">>]

\* the body of the loop over the items of the open side's properties
check_type_field(name, field_name, props, cloud_props, flag) ==
    IF flag /\ name = "StateCreate" /\ field_name \in {"timestamp", "id"}
    THEN passed
    ELSE IF field_name \notin keys(cloud_props)
    THEN failed(<<"properties", field_name, "missing">>)
    ELSE LET oss_options == type_options(props) \ {"null"}
             cloud_options == type_options(item(cloud_props, field_name))
         IN  IF oss_options \subseteq cloud_options
             THEN passed
             ELSE failed(<<"properties", field_name, "types">>)

\* the fields the loop visits: the open side's items without the
\* forward-compatible ones
type_items(name, oss_props) ==
    SelectSeq(oss_props,
              LAMBDA it : it.k \notin FORWARD_COMPATIBLE_OSS_API_TYPE_PROPS(name))

RECURSIVE check_type_fields(_, _, _, _, _)
check_type_fields(name, items, i, cloud_props, flag) ==
    IF i > Len(items)
    THEN passed
    ELSE LET r == check_type_field(name, items[i].k, items[i].v,
                                   cloud_props, flag)
         IN  IF r.status = "passed"
             THEN check_type_fields(name, items, i + 1, cloud_props, flag)
             ELSE r

\* isinstance(oss_type.get(master_key, {}), dict): an absent facet is the
\* empty dict; of the four facets of a schema object only `properties` is
\* a mapping, `required` and `enum` are lists and `type` is a string
facet_is_dict(oss_type, master_key) ==
    master_key \notin DOMAIN oss_type \/ master_key = "properties"

\* mutant of check_plain_facet: the subset test of the lists is reversed
check_plain_facet_reversed(oss_type, cloud_type, master_key) ==
    IF master_key \in {"required", "enum"}
    THEN IF Range(get(cloud_type, master_key, <<>>))
               \subseteq Range(oss_type[master_key])
         THEN [status |-> "passed", diag |-> <<>>]
         ELSE [status |-> "failed", diag |-> <<master_key>>]
    ELSE IF master_key \in DOMAIN cloud_type
            /\ oss_type[master_key] = cloud_type[master_key]
         THEN [status |-> "passed", diag |-> <<>>]
         ELSE [status |-> "failed", diag |-> <<master_key>>]

\* the comparison of a facet that is not a dict
check_plain_facet(oss_type, cloud_type, master_key) ==
    IF master_key \in {"required", "enum"}
    THEN \* set(oss_props) <= set(cloud_props); cloud_props is {} when absent
         IF Range(oss_type[master_key])
               \subseteq Range(get(cloud_type, master_key, <<>>))
         THEN passed
         ELSE failed(<<master_key>>)
    ELSE \* oss_props == cloud_props; cloud_props is {} when absent
         IF master_key \in DOMAIN cloud_type
            /\ oss_type[master_key] = cloud_type[master_key]
         THEN passed
         ELSE failed(<<master_key>>)

master_keys == <<"properties", "required", "enum", "type">>

RECURSIVE check_facets_continues(_, _, _, _, _)
check_facets_continues(name, oss_type, cloud_type, flag, i) ==
    IF i > Len(master_keys)
    THEN passed
    ELSE LET master_key == master_keys[i]
             r == IF ~facet_is_dict(oss_type, master_key)
                  THEN check_plain_facet(oss_type, cloud_type, master_key)
                  ELSE check_type_fields(
                           name,
                           type_items(name, get(oss_type, master_key, <<>>)),
                           1,
                           get(cloud_type, master_key, <<>>),
                           flag)
         IN  IF r.status = "passed"
             THEN check_facets_continues(name, oss_type, cloud_type, flag, i + 1)
             ELSE r

RECURSIVE check_facets(_, _, _, _, _)
check_facets(name, oss_type, cloud_type, flag, i) ==
    IF i > Len(master_keys)
    THEN passed
    ELSE LET master_key == master_keys[i]
         IN  IF ~facet_is_dict(oss_type, master_key)
             THEN check_plain_facet(oss_type, cloud_type, master_key)
             ELSE LET r == check_type_fields(
                              name,
                              type_items(name, get(oss_type, master_key, <<>>)),
                              1,
                              get(cloud_type, master_key, <<>>),
                              flag)
                  IN  IF r.status = "passed"
                      THEN check_facets(name, oss_type, cloud_type, flag, i + 1)
                      ELSE r

\* the hosted document after the test body ran on type `name`
types_cloud_after(name, cloud) ==
    IF name \in DOMAIN cloud.components.schemas
    THEN [cloud EXCEPT !.components.schemas[name] =
                           preprocess_pydantic_v1_type(@)]
    ELSE cloud

\* the outcome of the test body on type `name`
types_outcome(name, oss_type, cloud, flag) ==
    IF name \notin DOMAIN cloud.components.schemas
    THEN passed
    ELSE check_facets(name, oss_type,
                      types_cloud_after(name, cloud).components.schemas[name],
                      flag, 1)

(***************************************************************************)
(* test_oss_api_spelling_is_cloud_compatible                               *)
(***************************************************************************)
\* the assertion message f"{method.upper()}: {cloud_endpoint}"
spelling_message(method, cloud_endpoint) ==
    <<upper(method), ":", " ">> \o cloud_endpoint

spelling_outcome(method, endpoint, path, cloud_paths) ==
    LET cloud_endpoint == convert_oss_endpoint_to_cloud(endpoint)
    IN  IF "tags" \notin DOMAIN path[method]
        THEN error(<<"KeyError", "tags">>)
        ELSE IF Range(path[method].tags) \cap OpenOnlyTags = {}
        THEN IF cloud_endpoint \in DOMAIN cloud_paths
             THEN passed
             ELSE failed(spelling_message(method, cloud_endpoint))
        ELSE passed

(***************************************************************************)
(* test_api_path_parameters_are_compatible                                 *)
(***************************************************************************)
\* mutant of non_null_items: the null alternative is kept
non_null_items_keeps_null(schema) == schema.anyOf

\* the alternatives of a union that the comprehension keeps
non_null_items(schema) ==
    SelectSeq(schema.anyOf, LAMBDA it : getopt(it, "type") # <<"null">>)

\* item["type"] raises KeyError for a kept alternative without a type
param_schema_raises(schema) ==
    /\ "anyOf" \in DOMAIN schema
    /\ \E i \in DOMAIN non_null_items(schema) :
          "type" \notin DOMAIN non_null_items(schema)[i]

param_type_and_format(schema) ==
    IF "anyOf" \in DOMAIN schema
    THEN [i \in DOMAIN non_null_items(schema) |->
             <<getopt(non_null_items(schema)[i], "type"),
               getopt(non_null_items(schema)[i], "format")>>]
    ELSE << <<getopt(schema, "type"), getopt(schema, "format")>> >>

\* {p["name"]: (p["in"], p["required"], *param_type_and_format(p["schema"]))
\*  for p in params}: a later parameter of the same name replaces an earlier
param_dict(params) ==
    [n \in {params[i].name : i \in DOMAIN params} |->
        LET p == params[CHOOSE i \in DOMAIN params :
                           /\ params[i].name = n
                           /\ \A j \in DOMAIN params :
                                 params[j].name = n => j <= i]
        IN  <<p["in"], p.required>> \o param_type_and_format(p.schema)]

\* d.pop(key, None)
pop(d, key) == [k \in DOMAIN d \ {key} |-> d[k]]

InfrastructureParams == {"account_id", "workspace_id", "token_cost"}

params_outcome(method, endpoint, path, cloud_paths) ==
    LET cloud_endpoint == convert_oss_endpoint_to_cloud(endpoint)
    IN  IF cloud_endpoint \notin DOMAIN cloud_paths
        THEN passed
        ELSE IF method \notin DOMAIN cloud_paths[cloud_endpoint]
        THEN error(<<"KeyError", method>>)
        ELSE LET cloud_list ==
                     SelectSeq(get(cloud_paths[cloud_endpoint][method],
                                   "parameters", <<>>),
                               LAMBDA p : p.name \notin InfrastructureParams)
                 oss_list == get(path[method], "parameters", <<>>)
                 cloud_params == param_dict(cloud_list)
                 oss_params ==
                     IF \E group \in ENDPOINT_GROUPS_WITHOUT_API_VERSION :
                           contains(cloud_endpoint, group)
                     THEN pop(param_dict(oss_list), "x-prefect-api-version")
                     ELSE param_dict(oss_list)
             IN  IF \E i \in DOMAIN cloud_list :
                       param_schema_raises(cloud_list[i].schema)
                 THEN error(<<"KeyError", "type">>)
                 ELSE IF \E i \in DOMAIN oss_list :
                       param_schema_raises(oss_list[i].schema)
                 THEN error(<<"KeyError", "type">>)
                 ELSE IF cloud_params = oss_params
                 THEN passed
                 ELSE failed(<<"parameters">>)

(***************************************************************************)
(* test_api_request_bodies_are_compatible                                  *)
(***************************************************************************)
\* <<>> for None, else <<ref>>
lookup_content_body_schema(body) ==
    LET schema == get(get(get(body, "content", <<>>),
                          "application/json", <<>>), "schema", <<>>)
    IN  IF "$ref" \in DOMAIN schema
        THEN <<schema["$ref"]>>
        ELSE IF "allOf" \in DOMAIN schema
        THEN getopt(schema.allOf[1], "$ref")
        ELSE <<>>

\* the walk of lookup_schema_ref along the segments from position i on:
\* ok is FALSE when schema[key] raises KeyError
RECURSIVE walk_ref(_, _, _)
walk_ref(schema, segments, i) ==
    IF i > Len(segments)
    THEN [ok |-> TRUE, val |-> schema]
    ELSE IF segments[i] = "#"
    THEN walk_ref(schema, segments, i + 1)
    ELSE IF segments[i] \in DOMAIN schema
    THEN walk_ref(schema[segments[i]], segments, i + 1)
    ELSE [ok |-> FALSE, val |-> segments[i]]

\* [ok |-> TRUE, val |-> the sub-document, <<>> for None], or
\* [ok |-> FALSE, val |-> the key at which schema[key] raised KeyError]
lookup_schema_ref(schema, ref) ==
    IF ref = <<>>
    THEN [ok |-> TRUE, val |-> <<>>]
    ELSE walk_ref(schema, ref[1], 1)

\* `x or dict(type=None, properties={})` replaces None and the empty dict
falsy(val) == DOMAIN val = {}

\* ref_schema["type"] of `val or dict(type=None, properties={})`
ref_type(val) == IF falsy(val) THEN <<>> ELSE <<val.type>>

\* ref_schema["properties"] of `val or dict(type=None, properties={})`
ref_properties(val) == IF falsy(val) THEN <<>> ELSE val.properties

\* ref_schema[key] raises KeyError
ref_key_missing(val, key) == ~falsy(val) /\ key \notin DOMAIN val

\* a JSON default value is [kind |-> "list" | "dict" | "str" | "bool",
\* val |-> content]: the items of a list or dict, <<s>> for the str s,
\* <<"true">> or <<"false">> for a bool
hashable_default(d) ==
    LET default == getopt(d, "default")
    IN  IF default = <<>>
        THEN default
        ELSE IF default[1].kind = "list" /\ default[1].val = <<>>
        THEN <<[kind |-> "str", val |-> <<"list">>]>>
        ELSE IF default[1].kind = "dict" /\ default[1].val = <<>>
        THEN <<[kind |-> "str", val |-> <<"dict">>]>>
        ELSE default

extract_types(d) ==
    IF "type" \in DOMAIN d
    THEN {d.type}
    ELSE IF "anyOf" \in DOMAIN d
         THEN {d.anyOf[i].type :
                  i \in {j \in DOMAIN d.anyOf : "type" \in DOMAIN d.anyOf[j]}}
         ELSE {}

extract_format(d) ==
    IF "format" \in DOMAIN d
    THEN <<d.format>>
    ELSE IF "anyOf" \in DOMAIN d
              /\ \E i \in DOMAIN d.anyOf : "format" \in DOMAIN d.anyOf[i]
         THEN <<d.anyOf[CHOOSE i \in DOMAIN d.anyOf :
                           /\ "format" \in DOMAIN d.anyOf[i]
                           /\ \A j \in 1..(i - 1) :
                                 "format" \notin DOMAIN d.anyOf[j]].format>>
         ELSE <<>>

prop_gettr(name, d) ==
    [name |-> name,
     types |-> extract_types(d),
     format |-> extract_format(d),
     default |-> hashable_default(d),
     deprecated |-> getopt(d, "deprecated")]

\* the name under which the hosted side is looked up
body_alias(oss_name, flag) ==
    IF oss_name = "history_interval_seconds"
    THEN "history_interval"
    ELSE IF oss_name = "schema" /\ flag
    THEN "json_schema"
    ELSE oss_name

\* the body of the loop over the open side's properties
check_body_field(method, endpoint, oss, cloud_props, flag) ==
    LET oss_name == body_alias(oss.name, flag)
    IN  IF oss_name \notin keys(cloud_props)
        THEN failed(<<"present", oss.name>>)
        ELSE LET cloud == prop_gettr(oss_name, item(cloud_props, oss_name))
                 cloud_format ==
                     IF "null" \in oss.types /\ oss.format = <<>>
                     THEN <<>>
                     ELSE cloud.format
                 oss_types == oss.types \ {"null"}
                 known_incompatible_props ==
                     KNOWN_INCOMPATIBLE_API_REQUEST_PROPS(endpoint, method,
                                                          oss_name)
             IN  IF "name" \notin known_incompatible_props
                    /\ oss_name # cloud.name
                 THEN failed(<<"name", oss.name>>)
                 ELSE IF "types" \notin known_incompatible_props
                    /\ ~(oss_types \subseteq cloud.types)
                 THEN failed(<<"types", oss.name>>)
                 ELSE IF "format" \notin known_incompatible_props
                    /\ oss.format # cloud_format
                 THEN failed(<<"format", oss.name>>)
                 ELSE IF "default" \notin known_incompatible_props
                    /\ oss.default # cloud.default
                 THEN failed(<<"default", oss.name>>)
                 ELSE IF "deprecated" \notin known_incompatible_props
                    /\ oss.deprecated # cloud.deprecated
                 THEN failed(<<"deprecated", oss.name>>)
                 ELSE passed

\* mutant of body_items: the forward-compatible properties are visited too
body_items_unfiltered(endpoint, oss_properties) == oss_properties

\* the open side's properties the loop visits, in order
body_items(endpoint, oss_properties) ==
    SelectSeq(oss_properties,
              LAMBDA it :
                  it.k \notin FORWARD_COMPATIBLE_OSS_REQUEST_PROPS(endpoint))

RECURSIVE check_body_fields(_, _, _, _, _, _)
check_body_fields(method, endpoint, items, i, cloud_props, flag) ==
    IF i > Len(items)
    THEN passed
    ELSE LET r == check_body_field(method, endpoint,
                                   prop_gettr(items[i].k, items[i].v),
                                   cloud_props, flag)
         IN  IF r.status = "passed"
             THEN check_body_fields(method, endpoint, items, i + 1,
                                    cloud_props, flag)
             ELSE r

bodies_outcome(method, endpoint, path, oss, cloud, flag) ==
    LET cloud_paths == cloud.paths
        cloud_endpoint == convert_oss_endpoint_to_cloud(endpoint)
    IN  IF cloud_endpoint \notin DOMAIN cloud_paths
        THEN passed
        ELSE IF method \notin DOMAIN cloud_paths[cloud_endpoint]
        THEN error(<<"KeyError", method>>)
        ELSE LET cloud_body ==
                     get(cloud_paths[cloud_endpoint][method], "requestBody", <<>>)
                 oss_body == get(path[method], "requestBody", <<>>)
                 cloud_ref_schema ==
                     lookup_schema_ref(cloud,
                                       lookup_content_body_schema(cloud_body))
                 oss_ref_schema ==
                     lookup_schema_ref(oss,
                                       lookup_content_body_schema(oss_body))
             IN  IF ~cloud_ref_schema.ok
                 THEN error(<<"KeyError", cloud_ref_schema.val>>)
                 ELSE IF ~oss_ref_schema.ok
                 THEN error(<<"KeyError", oss_ref_schema.val>>)
                 ELSE IF ref_key_missing(cloud_ref_schema.val, "type")
                 THEN error(<<"KeyError", "type">>)
                 ELSE IF ref_key_missing(cloud_ref_schema.val, "properties")
                 THEN error(<<"KeyError", "properties">>)
                 ELSE IF ref_key_missing(oss_ref_schema.val, "type")
                 THEN error(<<"KeyError", "type">>)
                 ELSE IF ref_key_missing(oss_ref_schema.val, "properties")
                 THEN error(<<"KeyError", "properties">>)
                 ELSE IF ref_type(cloud_ref_schema.val)
                            # ref_type(oss_ref_schema.val)
                 THEN failed(<<"type">>)
                 ELSE check_body_fields(
                          method, endpoint,
                          body_items(endpoint,
                                     ref_properties(oss_ref_schema.val)),
                          1, ref_properties(cloud_ref_schema.val), flag)

(***************************************************************************)
(* The documents the checks are run on.                                    *)
(***************************************************************************)
Doc(version, paths, schemas) ==
    [info |-> [version |-> version],
     paths |-> paths,
     components |-> [schemas |-> schemas]]

\* a dict from the optional entries <<>> or <<value>>
Entry(key, optional) ==
    IF optional = <<>> THEN <<>> ELSE key :> optional[1]

TypeDesc(properties, required, enum, type) ==
    Entry("properties", properties) @@ Entry("required", required)
        @@ Entry("enum", enum) @@ Entry("type", type)

Operation(tags, parameters, requestBody) ==
    [tags |-> tags] @@ Entry("parameters", parameters)
        @@ Entry("requestBody", requestBody)

\* a request body that refers to a schema directly
BodyRef(ref) ==
    [content |-> ("application/json" :> [schema |-> ("$ref" :> ref)])]

\* a request body that refers to a schema inside an allOf wrapper
BodyAllOf(ref) ==
    [content |-> ("application/json" :>
                     [schema |-> [allOf |-> <<("$ref" :> ref)>>]])]

SchemaRef(name) == <<"#", "components", "schemas", name>>

Versions == {S_v2, S_v3, S_v02}

FString == [type |-> "string"]

FNullable == [anyOf |-> <<[type |-> "string"], [type |-> "null"]>>]

FUnion == [anyOf |-> <<[type |-> "string"], [type |-> "integer"]>>]

Fragments == {FString, FNullable, FUnion}

\* the one route of the documents whose routes are not under study
PlainPaths == S_flows :> ("get" :> Operation(<<"Flows">>, <<>>, <<>>))

PlainCloudPaths ==
    convert_oss_endpoint_to_cloud(S_flows)
        :> ("get" :> Operation(<<"Flows">>, <<>>, <<>>))

\* the one type of the documents whose types are not under study
PlainSchemas ==
    "Foo" :> TypeDesc(<< <<[k |-> "bar", v |-> FString]>> >>,
                      << <<"bar">> >>, <<>>, <<"object">>)

(***************************************************************************)
(* Documents for the type check: one named type on the open side, the      *)
(* same name or another one on the hosted side.                            *)
(***************************************************************************)
OpenProperties ==
    {<<>>}
    \cup {<< <<[k |-> "id", v |-> f]>> >> : f \in Fragments}
    \cup {<< <<[k |-> "job_variables", v |-> FString]>> >>}
    \cup {<< <<[k |-> "id", v |-> f],
               [k |-> "job_variables", v |-> FString]>> >> : f \in Fragments}
    \cup {<< <<[k |-> "job_variables", v |-> FString],
               [k |-> "id", v |-> FUnion]>> >>}

HostedProperties ==
    {<<>>}
    \cup {<< <<[k |-> "id", v |-> f]>> >> : f \in Fragments}
    \cup {<< <<[k |-> "job_variables", v |-> FString]>> >>}
    \cup {<< <<[k |-> "id", v |-> f],
               [k |-> "job_variables", v |-> FString]>> >> : f \in Fragments}

RequiredLists == {<<>>, << <<>> >>, << <<"id">> >>}

ObjectTypes(properties) ==
    {TypeDesc(p, r, <<>>, <<"object">>) : p \in properties, r \in RequiredLists}

EnumTypes ==
    {TypeDesc(<<>>, <<>>, e, t) :
        e \in {<<>>, << <<"A">> >>, << <<"A", "B">> >>},
        t \in {<<>>, <<"string">>, <<"integer">>}}

\* types that declare a `required` list next to an `enum` and a `type`
RequiredEnumTypes ==
    {TypeDesc(<<>>, <<r>>, e, <<t>>) :
        r \in {<<>>, <<"id">>},
        e \in {<<>>, << <<"A">> >>},
        t \in {"string", "integer"}}

\* (open type, hosted type)
TypePairs ==
    (ObjectTypes(OpenProperties) \X ObjectTypes(HostedProperties))
    \cup (EnumTypes \X EnumTypes)
    \cup (RequiredEnumTypes \X RequiredEnumTypes)

\* (open name, hosted name, open version): "Other" is a hosted type the
\* open side lacks
NamePairs ==
    {<<"Foo", "Foo", S_v2>>, <<"Foo", "Foo", S_v3>>, <<"Foo", "Other", S_v3>>,
     <<"StateCreate", "StateCreate", S_v2>>,
     <<"StateCreate", "StateCreate", S_v3>>,
     <<"DeploymentCreate", "DeploymentCreate", S_v3>>}

\* the state when the test module has been imported
Imported ==
    /\ PREFECT_V2 = FALSE
    /\ cloud_schema = <<>>
    /\ last = [test |-> "none", entry |-> <<>>, cloud_endpoint |-> <<>>,
               flag |-> FALSE, status |-> "none", diag |-> <<>>]
    /\ runs = 0

InitTypes ==
    /\ \E names \in NamePairs, types \in TypePairs :
          /\ oss_file = Doc(names[3], PlainPaths, names[1] :> types[1])
          /\ cloud_file = Doc(S_v3, PlainCloudPaths, names[2] :> types[2])
    /\ Imported

(***************************************************************************)
(* Documents for the route checks: the plain route and one route under     *)
(* study on the open side; on the hosted side any of the paths the route   *)
(* under study could have been published as, each with some methods.       *)
(***************************************************************************)
RoutePaths ==
    {S_flows, S_rapid, S_collections_view, S_csrf_token, S_ui_flows,
     S_exp_route}

MethodSets == {{"get"}, {"get", "post"}}

TagLists == {<<"Flows">>, <<"Admin">>, <<"Flows", "Root">>}

PathItem(methods, operation) == [m \in methods |-> operation]

\* the hosted paths a route may have been published as
HostedKeys(endpoint) ==
    CASE endpoint = S_flows -> {S_flows_scoped}
      [] endpoint = S_rapid -> {S_rapid_scoped, S_rapid_twice}
      [] endpoint = S_collections_view ->
             {S_collections_view, S_collections_scoped}
      [] OTHER -> {}

\* every hosted `paths` over a subset of the keys
HostedPaths(hosted_keys, operation) ==
    UNION {[present -> {PathItem(ms, operation) : ms \in MethodSets}] :
              present \in SUBSET hosted_keys}

InitRoutes ==
    /\ \E endpoint \in RoutePaths, methods \in MethodSets, tags \in TagLists :
          /\ oss_file =
                 Doc(S_v3,
                     (endpoint :> PathItem(methods,
                                           Operation(tags, <<>>, <<>>)))
                         @@ PlainPaths,
                     PlainSchemas)
          /\ \E hosted \in HostedPaths(HostedKeys(endpoint),
                                        Operation(<<"Flows">>, <<>>, <<>>)) :
                cloud_file =
                    Doc(S_v3,
                        IF endpoint = S_flows
                        THEN hosted
                        ELSE hosted @@ PlainCloudPaths,
                        PlainSchemas)
    /\ Imported

(***************************************************************************)
(* Documents for the parameter check: one route with one method on both    *)
(* sides, each side with its own parameter list.                           *)
(***************************************************************************)
Param(name, location, required, schema) ==
    [name |-> name, required |-> required, schema |-> schema]
        @@ ("in" :> location)

SUuid == [type |-> "string", format |-> "uuid"]

IdSchemas ==
    {SUuid,
     [type |-> "string"],
     [anyOf |-> <<SUuid, [type |-> "null"]>>],
     [anyOf |-> <<[type |-> "null"], SUuid>>],
     [anyOf |-> <<SUuid, [type |-> "integer"]>>]}

\* the ways a side declares, or does not declare, the parameter `id`
IdParams ==
    {<<>>}
    \cup {<<Param("id", "path", TRUE, schema)>> : schema \in IdSchemas}
    \cup {<<Param("id", "path", FALSE, SUuid)>>,
          <<Param("id", "query", TRUE, SUuid)>>}

VersionParams ==
    {<<>>, <<Param("x-prefect-api-version", "header", FALSE,
                   [type |-> "string"])>>}

\* the parameters the hosted routing layer adds
HostedOnlyParams ==
    {<<>>,
     <<Param("account_id", "path", TRUE, SUuid),
       Param("workspace_id", "path", TRUE, SUuid)>>,
     <<Param("token_cost", "query", FALSE, [type |-> "integer"])>>}

\* an operation with the parameters; without the key when there is none
ParamOperation(parameters) ==
    Operation(<<"Flows">>,
              IF parameters = <<>> THEN <<>> ELSE <<parameters>>, <<>>)

\* (open path, hosted path)
ParamRoutes ==
    {<<S_flows, S_flows_scoped>>, <<S_events_filter, S_events_scoped>>,
     <<S_collections_view, S_collections_view>>}

InitParams ==
    /\ \E route \in ParamRoutes :
          /\ \E id \in IdParams, v \in VersionParams :
                oss_file = Doc(S_v3,
                               route[1] :> ("get" :> ParamOperation(id \o v)),
                               PlainSchemas)
          /\ \E h \in HostedOnlyParams, id \in IdParams, v \in VersionParams :
                cloud_file = Doc(S_v3,
                                 route[2] :> ("get" :> ParamOperation(h \o id \o v)),
                                 PlainSchemas)
    /\ Imported

(***************************************************************************)
(* Documents for the request body check: one route with method post on     *)
(* both sides; each side's request body refers to its own schema "Body".   *)
(***************************************************************************)
Prop(name, fragment) == <<[k |-> name, v |-> fragment]>>

OpenBodyProperties ==
    {name \o job_variables \o other :
        name \in {Prop("name", FString), Prop("name", FUnion)},
        job_variables \in {<<>>, Prop("job_variables", [type |-> "object"])},
        other \in {<<>>,
                   Prop("schema", [type |-> "object"]),
                   Prop("history_interval_seconds", [type |-> "integer"]),
                   Prop("description", FNullable),
                   Prop("tags", [type |-> "array",
                                 default |-> [kind |-> "list", val |-> <<>>]]),
                   Prop("enforce_parameter_schema",
                        [type |-> "boolean",
                         default |-> [kind |-> "bool", val |-> <<"true">>]])}}

HostedBodyProperties ==
    {name \o job_variables \o other :
        name \in {<<>>, Prop("name", FString)},
        job_variables \in {<<>>, Prop("job_variables", [type |-> "object"])},
        other \in {<<>>,
                   Prop("schema", [type |-> "object"]),
                   Prop("json_schema", [type |-> "object"]),
                   Prop("history_interval", [type |-> "integer"]),
                   Prop("description",
                        [type |-> "string", format |-> "markdown"]),
                   Prop("tags", [type |-> "array", deprecated |-> TRUE,
                                 default |-> [kind |-> "str",
                                              val |-> <<"list">>]]),
                   Prop("enforce_parameter_schema",
                        [type |-> "boolean",
                         default |-> [kind |-> "bool", val |-> <<"false">>]])}}

BodyOperation(requestBody) == Operation(<<"Deployments">>, <<>>, requestBody)

BodySchemas(properties) ==
    ("Body" :> TypeDesc(<<properties>>, <<>>, <<>>, <<"object">>))
        @@ PlainSchemas

\* (open path, hosted path, open version)
BodyRoutes ==
    {<<S_deployments, S_deployments_scoped, S_v2>>,
     <<S_deployments, S_deployments_scoped, S_v3>>,
     <<S_flows, S_flows_scoped, S_v02>>}

\* the ways an operation refers, or does not refer, to a body schema;
\* no document has a schema "Missing"
OpenBodies ==
    {<<>>, <<BodyRef(SchemaRef("Body"))>>, <<BodyAllOf(SchemaRef("Body"))>>,
     <<BodyRef(SchemaRef("Missing"))>>}

\* the hosted schema "Blank" is the empty object, "Untyped" has no `type`
HostedBodies ==
    {<<>>, <<BodyRef(SchemaRef("Body"))>>, <<BodyRef(SchemaRef("Missing"))>>,
     <<BodyRef(SchemaRef("Blank"))>>, <<BodyRef(SchemaRef("Untyped"))>>}

HostedExtraSchemas ==
    ("Blank" :> <<>>)
        @@ ("Untyped" :> [properties |-> Prop("name", FString)])

InitBodies ==
    /\ \/ \E route \in BodyRoutes :
             /\ \E properties \in OpenBodyProperties :
                   oss_file =
                       Doc(route[3],
                           route[1] :> ("post" :> BodyOperation(
                                           <<BodyRef(SchemaRef("Body"))>>)),
                           BodySchemas(properties))
             /\ \E properties \in HostedBodyProperties :
                   cloud_file =
                       Doc(S_v3,
                           route[2] :> ("post" :> BodyOperation(
                                           <<BodyRef(SchemaRef("Body"))>>)),
                           BodySchemas(properties))
       \/ /\ \E body \in OpenBodies :
                oss_file =
                    Doc(S_v3,
                        S_flows :> ("post" :> BodyOperation(body)),
                        BodySchemas(Prop("name", FString)))
          /\ \E body \in HostedBodies,
                properties \in {<<>>, Prop("name", FString)} :
                cloud_file =
                    Doc(S_v3,
                        S_flows_scoped :> ("post" :> BodyOperation(body)),
                        BodySchemas(properties) @@ HostedExtraSchemas)
    /\ Imported

(***************************************************************************)
(* The fixtures and the four parametrized tests.  Each action is one test  *)
(* invocation: its fixtures are set up, then its body runs to the first    *)
(* failing assertion or exception.                                         *)
(***************************************************************************)
\* the flag after the oss_schema fixture ran
oss_schema_fixture(flag) == IF version_is_2(oss_file) THEN TRUE ELSE flag

\* what a test invocation leaves behind: the test and its parameter, the
\* translated path it computed (<<>> in the type test), the value of
\* PREFECT_V2 during its body, and its outcome
Outcome(test, entry, flag, outcome) ==
    [test |-> test, entry |-> entry,
     cloud_endpoint |-> IF test = "types" THEN <<>>
                        ELSE convert_oss_endpoint_to_cloud(entry[2]),
     flag |-> flag, status |-> outcome.status, diag |-> outcome.diag]

test_oss_api_spelling_is_cloud_compatible ==
    \E oss_path \in generate_oss_paths_by_method :
        /\ runs < MaxRuns
        /\ last' = Outcome("spelling", oss_path, PREFECT_V2,
                           spelling_outcome(oss_path[1], oss_path[2],
                                            oss_file.paths[oss_path[2]],
                                            cloud_file.paths))
        /\ runs' = runs + 1
        /\ UNCHANGED <<oss_file, cloud_file, PREFECT_V2, cloud_schema>>

test_api_path_parameters_are_compatible ==
    \E oss_path \in generate_oss_paths_by_method :
        /\ runs < MaxRuns
        /\ last' = Outcome("params", oss_path, PREFECT_V2,
                           params_outcome(oss_path[1], oss_path[2],
                                          oss_file.paths[oss_path[2]],
                                          cloud_file.paths))
        /\ runs' = runs + 1
        /\ UNCHANGED <<oss_file, cloud_file, PREFECT_V2, cloud_schema>>

test_api_request_bodies_are_compatible ==
    \E oss_path \in generate_oss_paths_by_method :
        /\ runs < MaxRuns
        /\ PREFECT_V2' = oss_schema_fixture(PREFECT_V2)
        /\ cloud_schema' = <<cloud_file>>
        /\ last' = Outcome("bodies", oss_path, PREFECT_V2',
                           bodies_outcome(oss_path[1], oss_path[2],
                                          oss_file.paths[oss_path[2]],
                                          oss_file, cloud_file, PREFECT_V2'))
        /\ runs' = runs + 1
        /\ UNCHANGED <<oss_file, cloud_file>>

test_oss_api_types_are_cloud_compatible ==
    \E name \in generate_oss_types :
        /\ runs < MaxRuns
        /\ cloud_schema' = <<types_cloud_after(name, cloud_file)>>
        /\ last' = Outcome("types", <<name>>, PREFECT_V2,
                           types_outcome(name,
                                         oss_file.components.schemas[name],
                                         cloud_file, PREFECT_V2))
        /\ runs' = runs + 1
        /\ UNCHANGED <<oss_file, cloud_file, PREFECT_V2>>

Next ==
    \/ test_oss_api_spelling_is_cloud_compatible
    \/ test_api_path_parameters_are_compatible
    \/ test_api_request_bodies_are_compatible
    \/ test_oss_api_types_are_cloud_compatible

SpecTypes == InitTypes /\ [][Next]_vars

SpecRoutes == InitRoutes /\ [][Next]_vars

SpecParams == InitParams /\ [][Next]_vars

SpecBodies == InitBodies /\ [][Next]_vars

Init == InitTypes \/ InitRoutes \/ InitParams \/ InitBodies

Spec == Init /\ [][Next]_vars

(***************************************************************************)
(* Properties of the type check.                                           *)
(***************************************************************************)
\* the latest invocation was the type check of a type of both documents
TypeCompared ==
    /\ last.test = "types"
    /\ last.entry[1] \in DOMAIN cloud_file.components.schemas

\* the two descriptors of that type, as the files declare them
OpenType == oss_file.components.schemas[last.entry[1]]

HostedType == cloud_file.components.schemas[last.entry[1]]

\* the names a descriptor declares as required
DeclaredRequired(type) ==
    IF "required" \in DOMAIN type THEN Range(type.required) ELSE {}

\* the names of a descriptor's properties
PropertyNames(type) ==
    IF "properties" \in DOMAIN type THEN keys(type.properties) ELSE {}

\* the type tags a property fragment declares
TypeSet(fragment) ==
    IF "type" \in DOMAIN fragment
    THEN {fragment.type}
    ELSE IF "anyOf" \in DOMAIN fragment
    THEN {t \in {"string", "integer", "null", "object", "boolean"} :
             \E i \in DOMAIN fragment.anyOf :
                 /\ "type" \in DOMAIN fragment.anyOf[i]
                 /\ fragment.anyOf[i].type = t}
    ELSE {}

\* C1: after any number of invocations of the type check the loaded hosted
\* document is identical to what was loaded from the file: no property of
\* a hosted type was wrapped and no hosted `required` list gained a name.
C1_HostedDocumentUnchanged ==
    cloud_schema # <<>> => cloud_schema[1] = cloud_file

\* the open-side fields the type check compares, in document order
ComparedFields ==
    SelectSeq(get(OpenType, "properties", <<>>),
              LAMBDA it :
                  /\ it.k \notin FORWARD_COMPATIBLE_OSS_API_TYPE_PROPS(last.entry[1])
                  /\ ~(last.flag /\ last.entry[1] = "StateCreate"
                          /\ it.k \in {"timestamp", "id"}))

\* the field exists on the hosted side and its type-set, null removed, is
\* a subset of the declared hosted field's type-set
FieldCompatible(it) ==
    /\ it.k \in PropertyNames(HostedType)
    /\ (TypeSet(it.v) \ {"null"})
           \subseteq TypeSet(item(HostedType.properties, it.k))

\* the type check reaches the `required` facet and compares it: no field
\* stopped it before and the open side declares the list
RequiredCompared ==
    /\ TypeCompared
    /\ "required" \in DOMAIN OpenType
    /\ \A i \in DOMAIN ComparedFields : FieldCompatible(ComparedFields[i])

\* C2 as stated: the type fails when the open `required` list holds a name
\* that the hosted document's declared `required` list lacks, and the
\* `required` facet passes when the declared hosted list holds them all.
C2_DeclaredRequiredSubset ==
    RequiredCompared =>
        (last.status = "passed"
            <=> DeclaredRequired(OpenType) \subseteq DeclaredRequired(HostedType))

\* the hosted list the open list is compared with: when the hosted type
\* declares a `required` list, that list and every hosted property name;
\* when it declares none, no name
ComparedRequired(type) ==
    IF "required" \in DOMAIN type
    THEN DeclaredRequired(type) \cup PropertyNames(type)
    ELSE {}

\* C2 amended: the `required` facet passes exactly when every open-side
\* required name is in the hosted list the check compares with, which is
\* the declared hosted `required` list extended by every hosted property
\* name (and is empty when the hosted type declares no `required` list).
C2_ComparedRequiredSubset ==
    RequiredCompared =>
        (last.status = "passed"
            <=> DeclaredRequired(OpenType) \subseteq ComparedRequired(HostedType))

\* an open required name that the hosted type declares only as an optional
\* property, and the type check passed
C2_Witness ==
    /\ RequiredCompared
    /\ ~(DeclaredRequired(OpenType) \subseteq DeclaredRequired(HostedType))
    /\ last.status = "passed"

\* C3: every compared field of a type of both documents passes if and only
\* if it exists in the hosted type's properties and its type-set without
\* null is a subset of the hosted field's type-set: the check reports the
\* first field for which this fails, and no field when there is none.
C3_FieldPassesIffSubset ==
    TypeCompared =>
        IF \A i \in DOMAIN ComparedFields : FieldCompatible(ComparedFields[i])
        THEN last.status = "failed" => last.diag[1] # "properties"
        ELSE LET first == CHOOSE i \in DOMAIN ComparedFields :
                              /\ ~FieldCompatible(ComparedFields[i])
                              /\ \A j \in 1..(i - 1) :
                                    FieldCompatible(ComparedFields[j])
             IN  /\ last.status = "failed"
                 /\ last.diag[1] = "properties"
                 /\ last.diag[2] = ComparedFields[first].k

\* open {string} against hosted {string, null} passed
C3_Witness ==
    /\ TypeCompared
    /\ last.status = "passed"
    /\ \E i \in DOMAIN ComparedFields :
          /\ TypeSet(ComparedFields[i].v) = {"string"}
          /\ FieldCompatible(ComparedFields[i])
          /\ TypeSet(item(HostedType.properties, ComparedFields[i].k))
                 = {"string", "null"}

Wrapped(type) ==
    LET optional(it) == it.k \notin DeclaredRequired(type)
        properties ==
            [i \in DOMAIN type.properties |->
                LET it == type.properties[i]
                IN  IF ~optional(it) THEN it
                    ELSE IF "anyOf" \in DOMAIN it.v
                    THEN [k |-> it.k,
                          v |-> [it.v EXCEPT
                                    !["anyOf"] = @ \o <<[type |-> "null"]>>]]
                    ELSE [k |-> it.k,
                          v |-> [anyOf |-> <<[type |-> "null"], it.v>>]]]
        added == SelectSeq(type.properties, optional)
        required == type.required \o [i \in DOMAIN added |-> added[i].k]
    IN  IF "properties" \notin DOMAIN type THEN type
        ELSE IF "required" \notin DOMAIN type
        THEN [type EXCEPT !["properties"] = properties]
        ELSE [type EXCEPT !["properties"] = properties,
                          !["required"] = required]

RouteTests == {"spelling", "params", "bodies"}

\* the operation the latest route test was run on
OpenOperation == oss_file.paths[last.entry[2]][last.entry[1]]

\* the latest invocation was the route existence check of an operation
\* without an open-only tag
SpellingChecked ==
    /\ last.test = "spelling"
    /\ \A i \in DOMAIN OpenOperation.tags :
          OpenOperation.tags[i] \notin
              {"Admin", "Flow Run Notification Policies", "Root"}

\* C4: the route existence check of an operation without an open-only tag
\* passes only if the translated path is a key of the hosted paths and the
\* method is a key under it; a hosted path without the method is reported
\* as a failure that names the method and the translated path.
C4_PathAndMethodRequired ==
    SpellingChecked =>
        /\ last.status = "passed" =>
              /\ last.cloud_endpoint \in DOMAIN cloud_file.paths
              /\ last.entry[1] \in DOMAIN cloud_file.paths[last.cloud_endpoint]
        /\ (/\ last.cloud_endpoint \in DOMAIN cloud_file.paths
            /\ last.entry[1] \notin DOMAIN cloud_file.paths[last.cloud_endpoint])
              => /\ last.status = "failed"
                 /\ last.diag = <<upper(last.entry[1]), ":", " ">>
                                    \o last.cloud_endpoint

\* s with its first occurrence of old, if any, replaced by new
ReplaceFirst(s, old, new) ==
    IF \E i \in 1..Len(s) : SubSeq(s, i, i + Len(old) - 1) = old
    THEN LET first == CHOOSE i \in 1..Len(s) :
                          /\ SubSeq(s, i, i + Len(old) - 1) = old
                          /\ \A j \in 1..(i - 1) :
                                SubSeq(s, j, j + Len(old) - 1) # old
         IN  SubSeq(s, 1, first - 1) \o new
                 \o SubSeq(s, first + Len(old), Len(s))
    ELSE s

\* C5: the translation returns a path of the exception set unchanged and
\* rewrites only the first occurrence of `api` in any other path.
C5_FirstOccurrenceOnly ==
    last.test \in RouteTests =>
        last.cloud_endpoint =
            IF last.entry[2] \in {S_collections_view}
            THEN last.entry[2]
            ELSE ReplaceFirst(last.entry[2], S_api, S_scoped)

(***************************************************************************)
(* Properties of the parameter check.                                      *)
(***************************************************************************)
\* the latest invocation was the parameter check of a route and method
\* that both documents have
ParamsCompared ==
    /\ last.test = "params"
    /\ last.cloud_endpoint \in DOMAIN cloud_file.paths
    /\ last.entry[1] \in DOMAIN cloud_file.paths[last.cloud_endpoint]

HostedOperation == cloud_file.paths[last.cloud_endpoint][last.entry[1]]

\* the translated path belongs to a group without the version header
ExemptGroup ==
    \E group \in ENDPOINT_GROUPS_WITHOUT_API_VERSION :
        contains(last.cloud_endpoint, group)

\* the parameters of each side that take part in the comparison
OpenParams ==
    SelectSeq(get(OpenOperation, "parameters", <<>>),
              LAMBDA p : ~(ExemptGroup /\ p.name = "x-prefect-api-version"))

HostedParams ==
    SelectSeq(get(HostedOperation, "parameters", <<>>),
              LAMBDA p : p.name \notin {"account_id", "workspace_id",
                                        "token_cost"})

\* the alternatives of a parameter schema: those of its union, or itself
Alternatives(schema) ==
    IF "anyOf" \in DOMAIN schema THEN schema.anyOf ELSE <<schema>>

\* the (type, format) pairs of the alternatives that are not null
NonNullPairs(schema) ==
    LET kept == SelectSeq(Alternatives(schema),
                          LAMBDA a : ~("type" \in DOMAIN a /\ a.type = "null"))
    IN  [i \in DOMAIN kept |-> <<getopt(kept[i], "type"),
                                 getopt(kept[i], "format")>>]

SameParam(p, q) ==
    /\ p["in"] = q["in"]
    /\ p.required = q.required
    /\ NonNullPairs(p.schema) = NonNullPairs(q.schema)

\* C9: the parameter check of a route and method of both documents passes
\* if and only if the hosted parameters without account_id, workspace_id
\* and token_cost and the open parameters (without x-prefect-api-version
\* on the exempt groups) have the same names and, per name, the same
\* location, required flag and list of non-null (type, format) pairs.
C9_ParamsPassIffEqual ==
    ParamsCompared =>
        (last.status = "passed" <=>
            /\ {OpenParams[i].name : i \in DOMAIN OpenParams}
                  = {HostedParams[j].name : j \in DOMAIN HostedParams}
            /\ \A i \in DOMAIN OpenParams, j \in DOMAIN HostedParams :
                  OpenParams[i].name = HostedParams[j].name
                      => SameParam(OpenParams[i], HostedParams[j]))

\* a parameter that is a union of T and null on one side and plain T on
\* the other, and the check passed
C9_Witness ==
    /\ ParamsCompared
    /\ last.status = "passed"
    /\ \E i \in DOMAIN OpenParams, j \in DOMAIN HostedParams :
          /\ OpenParams[i].name = HostedParams[j].name
          /\ "anyOf" \in DOMAIN OpenParams[i].schema
          /\ "anyOf" \notin DOMAIN HostedParams[j].schema

(***************************************************************************)
(* Properties of the request body check.                                   *)
(***************************************************************************)
\* the latest invocation was the request body check of a route and method
\* that both documents have
BodiesCompared ==
    /\ last.test = "bodies"
    /\ last.cloud_endpoint \in DOMAIN cloud_file.paths
    /\ last.entry[1] \in DOMAIN cloud_file.paths[last.cloud_endpoint]

\* the schema name an operation's request body refers to, directly or
\* inside an allOf wrapper: <<>> or <<name>>
BodySchemaName(operation) ==
    IF "requestBody" \notin DOMAIN operation
    THEN <<>>
    ELSE LET schema == operation.requestBody.content["application/json"].schema
         IN  IF "$ref" \in DOMAIN schema
             THEN <<schema["$ref"][4]>>
             ELSE <<schema.allOf[1]["$ref"][4]>>

\* the reference of the operation names a schema the document lacks
Unresolvable(doc, operation) ==
    /\ BodySchemaName(operation) # <<>>
    /\ BodySchemaName(operation)[1] \notin DOMAIN doc.components.schemas

\* C6: when a side's request body reference names a path segment the
\* document lacks, the request body check does not abort with a lookup
\* error but goes on with the empty default descriptor for that side.
C6_UnresolvedRefUsesDefault ==
    (/\ BodiesCompared
     /\ \/ Unresolvable(oss_file, OpenOperation)
        \/ Unresolvable(cloud_file, HostedOperation))
        => last.status # "error"

\* the properties of the body schema an operation refers to; none when it
\* refers to no schema of the document
BodyProperties(doc, operation) ==
    IF BodySchemaName(operation) = <<>> \/ Unresolvable(doc, operation)
    THEN <<>>
    ELSE get(doc.components.schemas[BodySchemaName(operation)[1]],
             "properties", <<>>)

\* the name under which the hosted side declares an open-side property
HostedName(name) ==
    CASE name = "history_interval_seconds" -> "history_interval"
      [] name = "schema" /\ last.flag -> "json_schema"
      [] OTHER -> name

\* C7: the request body check of a route and method of both documents
\* fails when an open-side body property outside the forward-compatible
\* table of the open path is missing, under its hosted name, from the
\* hosted body; a property of the table never causes a failure.
C7_ForwardCompatibleProps ==
    BodiesCompared =>
        LET open == BodyProperties(oss_file, OpenOperation)
            hosted == BodyProperties(cloud_file, HostedOperation)
            listed == FORWARD_COMPATIBLE_OSS_REQUEST_PROPS(last.entry[2])
        IN  /\ (\E i \in DOMAIN open :
                   /\ open[i].k \notin listed
                   /\ HostedName(open[i].k) \notin keys(hosted))
                  => last.status # "passed"
            /\ (last.status = "failed" /\ Len(last.diag) = 2)
                  => last.diag[2] \notin listed

\* job_variables on /api/deployments/, absent from the hosted body, and
\* the check passed
C7_Witness ==
    /\ BodiesCompared
    /\ last.entry[2] = S_deployments
    /\ "job_variables" \in keys(BodyProperties(oss_file, OpenOperation))
    /\ "job_variables" \notin keys(BodyProperties(cloud_file, HostedOperation))
    /\ last.status = "passed"

\* C8: the output of a check holds a diagnostic for every mismatch found,
\* not just the first: every open-side body property that does not match
\* its hosted counterpart is reported.
C8_EveryMismatchReported ==
    (BodiesCompared /\ last.status # "error") =>
        LET open == body_items(last.entry[2],
                               BodyProperties(oss_file, OpenOperation))
            hosted == BodyProperties(cloud_file, HostedOperation)
        IN  \A i \in DOMAIN open :
                check_body_field(last.entry[1], last.entry[2],
                                 prop_gettr(open[i].k, open[i].v),
                                 hosted, last.flag).status = "failed"
                    => /\ last.status = "failed"
                       /\ Len(last.diag) = 2
                       /\ last.diag[2] = open[i].k

(***************************************************************************)
(* The version mode flag                                                   *)
(***************************************************************************)
\* the last invocation read PREFECT_V2: a type check that entered its loop
\* over the fields of a type of both documents, or a request body check
FlagConsulted ==
    \/ /\ TypeCompared
       /\ type_items(last.entry[1], get(OpenType, "properties", <<>>)) # <<>>
    \/ last.test = "bodies"

\* C11: whenever a checker consults the version mode flag, its value is
\* "the open document's info.version starts with 2", whichever checkers
\* have run before.
C11_FlagIsVersionMode ==
    FlagConsulted => (last.flag = version_is_2(oss_file))

(***************************************************************************)
(* The order of the facets and the early exit of the type check            *)
(***************************************************************************)
\* the facets the open type declares as a list or a string, in the order
\* the check visits them
PlainFacets ==
    SelectSeq(<<"required", "enum", "type">>,
              LAMBDA key : key \in DOMAIN OpenType)

\* the open type's facet is compatible with the hosted type's: a list is a
\* subset of the hosted list the check compares with, a string is equal
FacetAgrees(key) ==
    CASE key = "required" ->
             DeclaredRequired(OpenType) \subseteq ComparedRequired(HostedType)
      [] key = "enum" ->
             Range(OpenType.enum)
                 \subseteq (IF "enum" \in DOMAIN HostedType
                            THEN Range(HostedType.enum) ELSE {})
      [] key = "type" ->
             /\ "type" \in DOMAIN HostedType
             /\ OpenType.type = HostedType.type

====
